---------------------------- MODULE Spec2Model ----------------------------
(***************************************************************************)
(* Model of reclassify_tab_v5b.py: the Taxonomy v5b rule engine            *)
(* (assign_v5b) and the sheet pipeline around it (reclassify_tab_v5b).     *)
(*                                                                         *)
(* Python str values are TLA+ strings.  A cell of the sheet is a record    *)
(* [kind, s]: kind "str" (a text cell, s its text), kind "nan" (an empty   *)
(* cell, which pandas reads as the float NaN) or kind "num" (a numeric     *)
(* cell, s the text str() renders for it).  A row is a function from the   *)
(* column names it has to cells; a column the row lacks is outside its     *)
(* DOMAIN.                                                                 *)
(***************************************************************************)
EXTENDS Integers, Sequences, FiniteSets, TLC

VARIABLES row, result, second, pc, df, results, df_v5b, summary1, summary2

vars == <<row, result, second, pc, df, results, df_v5b, summary1, summary2>>

---------------------------------------------------------------------------
(* Python values and the str methods the program calls                     *)

PyStr(t) == [kind |-> "str", s |-> t]

PyNum(t) == [kind |-> "num", s |-> t]

NaN == [kind |-> "nan", s |-> ""]

\* str(v): a str is itself, the float NaN renders as "nan", a number as its digits.
str(v) == IF v.kind = "nan" THEN "nan" ELSE v.s

\* row.get(c, ""): the cell of column c, or "" when the row has no such column.
get(r, c) == IF c \in DOMAIN r THEN r[c] ELSE PyStr("")

UpperLetters == "ABCDEFGHIJKLMNOPQRSTUVWXYZ"

LowerLetters == "abcdefghijklmnopqrstuvwxyz"

\* The small letter of each ASCII capital.
LowerTable ==
    [c \in {SubSeq(UpperLetters, i, i) : i \in 1..Len(UpperLetters)} |->
        LET i == CHOOSE i \in 1..Len(UpperLetters) : SubSeq(UpperLetters, i, i) = c
        IN  SubSeq(LowerLetters, i, i)]

\* One character of str.lower(): an ASCII capital maps to its small letter.
lower_char(c) == IF c \in DOMAIN LowerTable THEN LowerTable[c] ELSE c

RECURSIVE lower(_)
\* str.lower()
lower(t) ==
    IF Len(t) = 0 THEN ""
    ELSE lower_char(SubSeq(t, 1, 1)) \o lower(SubSeq(t, 2, Len(t)))

\* The characters str.strip() removes.
is_space(c) == c \in {" ", "\t", "\n", "\r"}

RECURSIVE lstrip(_)
lstrip(t) ==
    IF Len(t) > 0 /\ is_space(SubSeq(t, 1, 1)) THEN lstrip(SubSeq(t, 2, Len(t))) ELSE t

RECURSIVE rstrip(_)
rstrip(t) ==
    IF Len(t) > 0 /\ is_space(SubSeq(t, Len(t), Len(t)))
    THEN rstrip(SubSeq(t, 1, Len(t) - 1))
    ELSE t

\* str.strip()
strip(t) == rstrip(lstrip(t))

RECURSIVE join(_, _)
\* sep.join(parts), parts a sequence of strings
join(sep, parts) ==
    IF Len(parts) = 0 THEN ""
    ELSE IF Len(parts) = 1 THEN parts[1]
    ELSE parts[1] \o sep \o join(sep, Tail(parts))

\* k in t, for strings: t has k as a substring.
in_str(k, t) ==
    \E i \in 1..(Len(t) - Len(k) + 1) : SubSeq(t, i, i + Len(k) - 1) = k

\* any(k in desc for k in keys)
any_in(keys, desc) == \E k \in keys : in_str(k, desc)

---------------------------------------------------------------------------
(* Taxonomy v5b: keyword groups                                            *)

electrical_consumable_keys ==
    {"terminal","terminals","connector","connectors","fuse","fuses","label","labels",
     "zip tie","zip-tie","heat shrink","heat-shrink","lug","ring terminal","butt splice",
     "butt-splice","spade","boot","tie mount","cable tie","cable-tie","wire ferrule","ferrule"}

electrical_component_keys ==
    {"relay","relays","breaker","breakers","controller","controllers","converter","converters",
     "power supply","power supplies","switch","switches","sensor","sensors","outlet","outlets",
     "bus bar","disconnect","enclosure","box","contact","contactor","panel","display","gauge"}

hull_maintenance_keys ==
    {"adhesive","sealant","cleaning","painting","sanding","fiberglass","polish","tape",
     "protective","wrap","repair","supplies","paint","varnish","epoxy"}

hull_rigging_keys ==
    {"rigging","fitting","mooring","anchor","anchoring","line","rope","deck","fender",
     "winch","cover","sail","sails","halyard","sheet","bosun","mast","spool","traveler",
     "block","cleat","clutch","shackle","turnbuckle","stay"}

recreational_water_keys == {"water","diving","snorkel","swim","surf","paddle","kite","sup"}

recreational_fitness_keys ==
    {"fitness","gym","exercise","yoga","workout","weight","band","dumbbell","resistance"}

tools_keys ==
    {"tool","tools","puller","pliers","screwdriver","drill","socket","wrench","punch",
     "generator","clamp"}

test_measure_keys ==
    {"pressure gauge","pressure gauges","gauge","measurement","calibration","manifold"}

cleaning_keys ==
    {"cleaning","laundry","detergent","soap","polish","wipe","wipes","brush","broom","mop"}

ppe_keys ==
    {"respiratory","respirator","uniform","uniforms","gloves","coverall","coveralls",
     "mask","masks"}

docs_keys == {"manual","manuals","document","documents","logbook","logbooks","book","books"}

safety_fire_keys == {"fire","firefighting","extinguisher","fire hose","firehose","suppression"}

safety_rescue_keys ==
    {"life jacket","lifejacket","harness","tether","survival","epirb","plb","flare","flares",
     "liferaft","life raft"}

rec_components_keys ==
    {"hinge","slide","drawer","latch","hardware","bracket","mount","knob","fixture"}

rec_consumables_keys == {"lubricant","lubricants","oil","adhesive","polish","protectant","wax"}

\* The keyword lists written inline in the Recreational and Sailing blocks.
rec_tools_list == {"tools"}

rec_medical_list == {"medical", "safety"}

rec_galley_list == {"food", "galley"}

rec_office_list == {"office", "book", "document", "decor", "blanket", "logbook"}

sailing_canvas_list == {"sail", "canvas", "cover", "stack pack", "stackpack"}

sailing_running_list == {"halyard", "sheet", "reef", "downhaul", "line", "rope"}

sailing_standing_list == {"shroud", "stay", "turnbuckle", "chainplate", "standing"}

sailing_deck_list == {"winch", "traveler", "block", "cleat", "clutch"}

sailing_consumable_list == {"tape", "twine", "whipping", "grease", "lubricant"}

sailing_repair_list == {"sewing", "palm", "needle", "machine"}

---------------------------------------------------------------------------
(* assign_v5b                                                              *)

\* desc_of without the lower(): the fields are searched in the case they are written in.
desc_of_no_lower(r) ==
    join(" ", <<str(get(r, "Item")), str(get(r, "Description")), str(get(r, "Subcategory"))>>)

\* The description string: the three text fields, each str()-ed and lowered,
\* joined by single spaces.
desc_of(r) ==
    join(" ", <<lower(str(get(r, "Item"))),
                lower(str(get(r, "Description"))),
                lower(str(get(r, "Subcategory")))>>)

electrical_block(desc, vsubsub) ==
    IF any_in(electrical_consumable_keys, desc)
    THEN <<"Electrical", "Electrical Consumables", vsubsub>>
    ELSE IF any_in(electrical_component_keys, desc)
    THEN <<"Electrical", "Electrical Components & Devices", vsubsub>>
    ELSE <<"Electrical", "Electrical Components & Devices", vsubsub>>

\* hull_block with the fire-safety keywords tested before the rigging keywords.
hull_block_fire_first(desc, vsubsub) ==
    IF any_in(hull_maintenance_keys, desc)
    THEN <<"Hull", "Hull Maintenance & Repair", vsubsub>>
    ELSE IF any_in(safety_fire_keys, desc)
    THEN <<"Safety", "Fire & Emergency Equipment", vsubsub>>
    ELSE IF any_in(hull_rigging_keys, desc)
    THEN <<"Hull", "Rigging & Deck Equipment", vsubsub>>
    ELSE IF any_in(safety_rescue_keys, desc)
    THEN <<"Safety", "Rescue & Survival Equipment", vsubsub>>
    ELSE <<"Hull", "Hull Maintenance & Repair", vsubsub>>

\* hull_block without its fire-safety test.
hull_block_no_fire(desc, vsubsub) ==
    IF any_in(hull_maintenance_keys, desc)
    THEN <<"Hull", "Hull Maintenance & Repair", vsubsub>>
    ELSE IF any_in(hull_rigging_keys, desc)
    THEN <<"Hull", "Rigging & Deck Equipment", vsubsub>>
    ELSE IF any_in(safety_rescue_keys, desc)
    THEN <<"Safety", "Rescue & Survival Equipment", vsubsub>>
    ELSE <<"Hull", "Hull Maintenance & Repair", vsubsub>>

\* hull_block moving a fire-safety item to Safety but leaving its sub-category
\* at the catch-all.
hull_block_fire_catch_all(desc, vsubsub) ==
    IF any_in(hull_maintenance_keys, desc)
    THEN <<"Hull", "Hull Maintenance & Repair", vsubsub>>
    ELSE IF any_in(hull_rigging_keys, desc)
    THEN <<"Hull", "Rigging & Deck Equipment", vsubsub>>
    ELSE IF any_in(safety_fire_keys, desc)
    THEN <<"Safety", "Other Spare Parts", vsubsub>>
    ELSE IF any_in(safety_rescue_keys, desc)
    THEN <<"Safety", "Rescue & Survival Equipment", vsubsub>>
    ELSE <<"Hull", "Hull Maintenance & Repair", vsubsub>>

hull_block(desc, vsubsub) ==
    IF any_in(hull_maintenance_keys, desc)
    THEN <<"Hull", "Hull Maintenance & Repair", vsubsub>>
    ELSE IF any_in(hull_rigging_keys, desc)
    THEN <<"Hull", "Rigging & Deck Equipment", vsubsub>>
    ELSE IF any_in(safety_fire_keys, desc)
    THEN <<"Safety", "Fire & Emergency Equipment", vsubsub>>
    ELSE IF any_in(safety_rescue_keys, desc)
    THEN <<"Safety", "Rescue & Survival Equipment", vsubsub>>
    ELSE <<"Hull", "Hull Maintenance & Repair", vsubsub>>

common_maintenance_block(desc, vsubsub) ==
    IF any_in(tools_keys, desc)
    THEN <<"Common Maintenance", "Tools & Equipment", vsubsub>>
    ELSE IF any_in(test_measure_keys, desc)
    THEN <<"Common Maintenance", "Test & Measurement Tools", vsubsub>>
    ELSE IF any_in(cleaning_keys, desc)
    THEN <<"Common Maintenance", "Cleaning Equipment & Supplies", vsubsub>>
    ELSE IF any_in(ppe_keys, desc)
    THEN <<"Common Maintenance", "PPE & Uniforms", vsubsub>>
    ELSE IF any_in(docs_keys, desc)
    THEN <<"Common Maintenance", "Documentation & Manuals", vsubsub>>
    ELSE <<"Common Maintenance", "Maintenance Consumables", vsubsub>>

recreational_block(desc, vsubsub) ==
    IF any_in(cleaning_keys, desc)
    THEN <<"Common Maintenance", "Cleaning Equipment & Supplies", vsubsub>>
    ELSE IF in_str("tools", desc)
    THEN <<"Common Maintenance", "Tools & Equipment", vsubsub>>
    ELSE IF in_str("medical", desc) \/ in_str("safety", desc)
    THEN <<"Safety", "First Aid & Emergency Equipment", vsubsub>>
    ELSE IF in_str("food", desc) \/ in_str("galley", desc)
    THEN <<"Recreational", "Galley Consumables", vsubsub>>
    ELSE IF any_in(rec_office_list, desc)
    THEN <<"Recreational", "Cabin & Office Supplies", vsubsub>>
    ELSE IF any_in(recreational_water_keys, desc)
    THEN <<"Recreational", "Recreational Equipment", vsubsub>>
    ELSE IF any_in(recreational_fitness_keys, desc)
    THEN <<"Recreational", "Sports & Fitness Equipment", vsubsub>>
    ELSE IF any_in(rec_components_keys, desc)
    THEN <<"Recreational", "Recreational Components", vsubsub>>
    ELSE IF any_in(rec_consumables_keys, desc)
    THEN <<"Recreational", "Recreational Consumables", vsubsub>>
    ELSE <<"Recreational", "Recreational Cleaning & Storage", vsubsub>>

sailing_block(desc, vsubsub) ==
    IF any_in(sailing_canvas_list, desc)
    THEN <<"Sailing", "Sails & Canvas", vsubsub>>
    ELSE IF any_in(sailing_running_list, desc)
    THEN <<"Sailing", "Running Rigging", vsubsub>>
    ELSE IF any_in(sailing_standing_list, desc)
    THEN <<"Sailing", "Standing Rigging", vsubsub>>
    ELSE IF any_in(sailing_deck_list, desc)
    THEN <<"Sailing", "Winches & Deck Gear", vsubsub>>
    ELSE IF any_in(sailing_consumable_list, desc)
    THEN <<"Sailing", "Sailing Consumables", vsubsub>>
    ELSE IF any_in(sailing_repair_list, desc)
    THEN <<"Sailing", "Sail Maintenance & Repair", vsubsub>>
    ELSE <<"Sailing", "Sailing Consumables", vsubsub>>

\* safety_block with no fallback of its own: an unmatched row keeps the catch-all.
safety_block_pass_through(desc, vsubsub) ==
    IF any_in(safety_fire_keys, desc)
    THEN <<"Safety", "Fire & Emergency Equipment", vsubsub>>
    ELSE IF any_in(safety_rescue_keys, desc)
    THEN <<"Safety", "Rescue & Survival Equipment", vsubsub>>
    ELSE <<"Safety", "Other Spare Parts", vsubsub>>

safety_block(desc, vsubsub) ==
    IF any_in(safety_fire_keys, desc)
    THEN <<"Safety", "Fire & Emergency Equipment", vsubsub>>
    ELSE IF any_in(safety_rescue_keys, desc)
    THEN <<"Safety", "Rescue & Survival Equipment", vsubsub>>
    ELSE <<"Safety", "First Aid & Emergency Equipment", vsubsub>>

\* Full Taxonomy v5b logic: the (category, sub-category, sub-sub-category) of a row.
assign_v5b(r) ==
    LET orig_new_cat == strip(str(get(r, "New Category")))
        orig_new_sub == strip(str(get(r, "New Sub-Category")))
        desc         == desc_of(r)
        vsubsub      == strip(str(get(r, "New Sub-Sub-Category")))
    IN  IF orig_new_cat = "Electrical" /\ orig_new_sub = "Other Spare Parts"
        THEN electrical_block(desc, vsubsub)
        ELSE IF orig_new_cat = "Hull" /\ orig_new_sub = "Other Spare Parts"
        THEN hull_block(desc, vsubsub)
        ELSE IF orig_new_cat = "Common Maintenance" /\ orig_new_sub = "Other Spare Parts"
        THEN common_maintenance_block(desc, vsubsub)
        ELSE IF orig_new_cat = "Recreational" /\ orig_new_sub = "Other Spare Parts"
        THEN recreational_block(desc, vsubsub)
        ELSE IF orig_new_cat = "Sailing" /\ orig_new_sub = "Other Spare Parts"
        THEN sailing_block(desc, vsubsub)
        ELSE IF orig_new_cat = "Safety" /\ orig_new_sub = "Other Spare Parts"
        THEN safety_block(desc, vsubsub)
        ELSE <<orig_new_cat, orig_new_sub, vsubsub>>

---------------------------------------------------------------------------
(* Input rows                                                              *)

\* Marks a column that the row does not have (only while rows are built).
Missing == [kind |-> "missing", s |-> ""]

ColumnNames ==
    <<"Item", "Description", "Subcategory",
      "New Category", "New Sub-Category", "New Sub-Sub-Category">>

\* The row with the given cells, in the order of ColumnNames; a Missing cell
\* leaves its column out of the row.
MkRow(cells) ==
    LET present == {i \in 1..Len(ColumnNames) : cells[i] # Missing}
        names   == {ColumnNames[i] : i \in present}
    IN  [c \in names |-> cells[CHOOSE i \in present : ColumnNames[i] = c]]

TriggerCategories ==
    {"Electrical", "Hull", "Common Maintenance", "Recreational", "Sailing", "Safety"}

\* The most spaces written before or after the text of a padded cell.
MaxPad == 1

RECURSIVE Spaces(_)
Spaces(n) == IF n = 0 THEN "" ELSE " " \o Spaces(n - 1)

\* The text t with up to MaxPad spaces before it and after it.
Padded(t) == {Spaces(a) \o t \o Spaces(b) : a, b \in 0..MaxPad}

CategoryCells ==
    {PyStr(c) : c \in TriggerCategories}
        \cup {PyStr(t) : t \in Padded("Hull")}
        \cup {PyStr("Plumbing"), PyStr("hull"), PyStr(""), NaN, Missing}

SubCategoryCells ==
    {PyStr(t) : t \in Padded("Other Spare Parts")}
        \cup {PyStr("other spare parts"), PyStr("Pumps"), NaN, Missing}

SubSubCells ==
    {PyStr(t) : t \in Padded("Misc")} \cup {PyStr(""), NaN, PyNum("7"), Missing}

ItemCells ==
    {Missing, NaN, PyStr(""), PyStr("POLISHING"), PyStr("Zip"), PyStr("fire hose"),
     PyStr("Winch"), PyStr("tools"), PyStr("Brass")}

DescriptionCells ==
    {NaN, PyStr(""), PyStr("brass ring terminal"), PyStr("fire extinguisher bracket"),
     PyStr("tie"), PyStr("epoxy and rope"), PyStr("Pressure Gauge"),
     PyStr("life jacket harness"), PyStr("galley blanket"), PyStr("yoga water bottle"),
     PyStr("drawer latch wax"), PyStr("sewing needle twine"), PyStr("relay switch"),
     PyStr("medical kit"), PyStr("stay block"), PyStr("gloves manual"), PyStr("widget")}

SubcategoryCells ==
    {Missing, NaN, PyStr("Spares"), PyStr("Canvas cover"), PyStr("soap"), PyStr("tie")}

\* Every prior classification, with a few descriptions.
TriggerRows ==
    {MkRow(<<d[1], d[2], d[3], c, s, ss>>) :
        d \in {<<Missing, PyStr("fire extinguisher bracket"), Missing>>,
               <<NaN, NaN, NaN>>,
               <<PyStr("POLISHING"), PyStr("brass ring terminal"), PyStr("sheet")>>},
        c \in CategoryCells, s \in SubCategoryCells, ss \in SubSubCells}

\* Every description, under each catch-all category and one other.
DescriptionRows ==
    {MkRow(<<i, d, sc, c, PyStr("Other Spare Parts"), PyStr("Misc")>>) :
        i \in ItemCells, d \in DescriptionCells, sc \in SubcategoryCells,
        c \in {PyStr(x) : x \in TriggerCategories \cup {"Plumbing"}}}

RowInputs == TriggerRows \cup DescriptionRows

---------------------------------------------------------------------------
(* One row through assign_v5b, and a second pass over its result           *)

NoRow == << >>

NoTable == [columns |-> << >>, rows |-> << >>]

TableIdle ==
    /\ df = NoTable
    /\ results = << >>
    /\ df_v5b = NoTable
    /\ summary1 = << >>
    /\ summary2 = {}

InitAssign ==
    /\ row \in RowInputs
    /\ result = << >>
    /\ second = << >>
    /\ pc = "start"
    /\ TableIdle

\* r with its prior category and sub-category replaced by the derived pair t.
Reapplied(r, t) ==
    [c \in DOMAIN r \cup {"New Category", "New Sub-Category"} |->
        IF c = "New Category" THEN PyStr(t[1])
        ELSE IF c = "New Sub-Category" THEN PyStr(t[2])
        ELSE r[c]]

Assign ==
    /\ pc = "start"
    /\ result' = assign_v5b(row)
    /\ pc' = "assigned"
    /\ UNCHANGED <<row, second, df, results, df_v5b, summary1, summary2>>

Reassign ==
    /\ pc = "assigned"
    /\ second' = assign_v5b(Reapplied(row, result))
    /\ pc' = "reassigned"
    /\ UNCHANGED <<row, result, df, results, df_v5b, summary1, summary2>>

NextAssign == Assign \/ Reassign

SpecAssign == InitAssign /\ [][NextAssign]_vars

---------------------------------------------------------------------------
(* reclassify_tab_v5b: one sheet through the pipeline                      *)

\* The most rows a sheet of the model has.
MaxRows == 2

NewColumns == <<"New Category", "New Sub-Category", "New Sub-Sub-Category">>

v5bColumns == <<"v5b_Category", "v5b_SubCategory", "v5b_Sub-SubCategory">>

Range(q) == {q[i] : i \in 1..Len(q)}

\* The column layouts of the sheets read.
SheetLayouts ==
    {<<"Item", "Description", "Subcategory", "New Category", "New Sub-Category",
       "New Sub-Sub-Category", "Qty">>,
     <<"Item", "Description", "New Category", "New Sub-Category">>,
     <<"Description", "Qty">>}

\* The cells a column of a sheet may hold.
SheetCells(c) ==
    CASE c = "Item" -> {PyStr("Winch")}
      [] c = "Description" -> {PyStr("fire extinguisher bracket"), NaN}
      [] c = "Subcategory" -> {PyStr("Spares")}
      [] c = "New Category" ->
            {PyStr("Hull"), PyStr(" Hull "), PyStr("Safety"), PyStr("Plumbing"), NaN}
      [] c = "New Sub-Category" ->
            {PyStr("Other Spare Parts"), PyStr("Other Spare Parts "), PyStr("Pumps"), NaN}
      [] c = "New Sub-Sub-Category" -> {PyStr("Misc")}
      [] c = "Qty" -> {PyNum("2")}

\* The rows over every column of the sheets.
FullRows ==
    {[c \in {"Item", "Description", "Subcategory", "New Category", "New Sub-Category",
             "New Sub-Sub-Category", "Qty"} |->
        CASE c = "Item" -> i
          [] c = "Description" -> d
          [] c = "Subcategory" -> sc
          [] c = "New Category" -> cat
          [] c = "New Sub-Category" -> sub
          [] c = "New Sub-Sub-Category" -> ss
          [] c = "Qty" -> q] :
        i \in SheetCells("Item"), d \in SheetCells("Description"),
        sc \in SheetCells("Subcategory"), cat \in SheetCells("New Category"),
        sub \in SheetCells("New Sub-Category"), ss \in SheetCells("New Sub-Sub-Category"),
        q \in SheetCells("Qty")}

\* The rows a sheet of the given layout may hold.
SheetRows(layout) == {[c \in Range(layout) |-> r[c]] : r \in FullRows}

Init ==
    /\ row = NoRow
    /\ result = << >>
    /\ second = << >>
    /\ pc = "start"
    /\ TableIdle

\* df = pd.read_excel(input_path, sheet_name=sheet_name): a sheet of one of the
\* layouts, with one to MaxRows rows.  (A sheet without rows is not read here:
\* what df.apply returns for it is decided inside pandas, not by this program.)
ReadExcel ==
    /\ pc = "start"
    /\ \E layout \in SheetLayouts, n \in 1..MaxRows :
          \E rows \in [1..n -> SheetRows(layout)] :
              df' = [columns |-> layout, rows |-> rows]
    /\ pc' = "read"
    /\ UNCHANGED <<row, result, second, results, df_v5b, summary1, summary2>>

\* The table with column col added, "" in every row, when it lacks it.
WithColumn(t, col) ==
    IF col \in Range(t.columns) THEN t
    ELSE [columns |-> Append(t.columns, col),
          rows |-> [i \in 1..Len(t.rows) |->
                       [c \in DOMAIN t.rows[i] \cup {col} |->
                           IF c = col THEN PyStr("") ELSE t.rows[i][c]]]]

\* for col in ["New Category", "New Sub-Category", "New Sub-Sub-Category"]: ...
EnsureColumns ==
    /\ pc = "read"
    /\ df' = WithColumn(WithColumn(WithColumn(df, NewColumns[1]), NewColumns[2]),
                        NewColumns[3])
    /\ pc' = "ensured"
    /\ UNCHANGED <<row, result, second, results, df_v5b, summary1, summary2>>

\* results = df.apply(assign_v5b, axis=1, result_type="expand"), its columns named.
Apply ==
    /\ pc = "ensured"
    /\ results' = [i \in 1..Len(df.rows) |->
                      LET t == assign_v5b(df.rows[i])
                      IN  [c \in Range(v5bColumns) |->
                              PyStr(t[CHOOSE k \in 1..3 : v5bColumns[k] = c])]]
    /\ pc' = "applied"
    /\ UNCHANGED <<row, result, second, df, df_v5b, summary1, summary2>>

\* df.columns.get_loc(name) + 1: the 1-based place of the column.
get_loc(columns, name) == CHOOSE i \in 1..Len(columns) : columns[i] = name

\* df_v5b = pd.concat([df[cols_left], results, df[cols_right]], axis=1)
Concat ==
    /\ pc = "applied"
    /\ LET insert_at == IF "New Sub-Sub-Category" \in Range(df.columns)
                        THEN get_loc(df.columns, "New Sub-Sub-Category")
                        ELSE Len(df.columns)
           cols_left  == SubSeq(df.columns, 1, insert_at)
           cols_right == SubSeq(df.columns, insert_at + 1, Len(df.columns))
       IN  df_v5b' =
              [columns |-> cols_left \o v5bColumns \o cols_right,
               rows |-> [i \in 1..Len(df.rows) |->
                            [c \in DOMAIN df.rows[i] \cup Range(v5bColumns) |->
                                IF c \in Range(v5bColumns) THEN results[i][c]
                                ELSE df.rows[i][c]]]]
    /\ pc' = "concat"
    /\ UNCHANGED <<row, result, second, df, results, summary1, summary2>>

\* Series.fillna(""), on one cell
fillna(cell) == IF cell.kind = "nan" THEN PyStr("") ELSE cell

\* The changed mask: the rows whose derived category or sub-category differs
\* from the prior one, nulls filled with "".
changed(t) ==
    {i \in 1..Len(t.rows) :
        \/ fillna(t.rows[i]["v5b_Category"]) # fillna(t.rows[i]["New Category"])
        \/ fillna(t.rows[i]["v5b_SubCategory"]) # fillna(t.rows[i]["New Sub-Category"])}

max(a, b) == IF a >= b THEN a ELSE b

\* round(100 * n / d, 2) in hundredths of a percent, ties to the even hundredth.
round_pct(n, d) ==
    LET q == (10000 * n) \div d
        m == (10000 * n) % d
    IN  IF 2 * m > d \/ (2 * m = d /\ q % 2 = 1) THEN q + 1 ELSE q

\* The one row of summary1.
Summary1Of(t) ==
    LET total_rows == Len(t.rows)
        n_changed  == Cardinality(changed(t))
    IN  [c \in {"Total Rows", "Changed Rows", "Changed %",
                "Blank v5b Sub-Categories", "v5b Categories Used"} |->
            CASE c = "Total Rows" -> total_rows
              [] c = "Changed Rows" -> n_changed
              [] c = "Changed %" -> round_pct(n_changed, max(total_rows, 1))
              [] c = "Blank v5b Sub-Categories" ->
                    Cardinality({i \in 1..total_rows :
                                    t.rows[i]["v5b_SubCategory"].kind = "nan"})
              [] c = "v5b Categories Used" ->
                    Cardinality({t.rows[i]["v5b_Category"] : i \in 1..total_rows} \ {NaN})]

\* The rows df_v5b["New Sub-Category"] == "Other Spare Parts" selects.
catch_all_rows(t) ==
    {i \in 1..Len(t.rows) : t.rows[i]["New Sub-Category"] = PyStr("Other Spare Parts")}

\* .groupby(["New Category", "v5b_Category"]).size().reset_index(name="Count"):
\* one row per pair of keys among the selected rows; groupby leaves out the
\* rows with a null key.
Summary2Of(t) ==
    LET grouped == {i \in catch_all_rows(t) :
                       /\ t.rows[i]["New Category"].kind # "nan"
                       /\ t.rows[i]["v5b_Category"].kind # "nan"}
        key(i)  == <<t.rows[i]["New Category"], t.rows[i]["v5b_Category"]>>
    IN  {[prior |-> k[1], derived |-> k[2],
          Count |-> Cardinality({i \in grouped : key(i) = k})] :
            k \in {key(i) : i \in grouped}}

Summaries ==
    /\ pc = "concat"
    /\ summary1' = Summary1Of(df_v5b)
    /\ summary2' = Summary2Of(df_v5b)
    /\ pc' = "summarised"
    /\ UNCHANGED <<row, result, second, df, results, df_v5b>>

\* The three sheets are written to the output workbook.
WriteExcel ==
    /\ pc = "summarised"
    /\ pc' = "done"
    /\ UNCHANGED <<row, result, second, df, results, df_v5b, summary1, summary2>>

Next == ReadExcel \/ EnsureColumns \/ Apply \/ Concat \/ Summaries \/ WriteExcel

Spec == Init /\ [][Next]_vars

---------------------------------------------------------------------------
(* The rule table the blocks are claimed to implement                      *)

Rule(keys, cat, sub) == [keys |-> keys, target |-> <<cat, sub>>]

\* The keyword sets of a block in their declared order, each with its target.
BlockRules(cat) ==
    CASE cat = "Electrical" ->
            <<Rule(electrical_consumable_keys, "Electrical", "Electrical Consumables"),
              Rule(electrical_component_keys, "Electrical", "Electrical Components & Devices")>>
      [] cat = "Hull" ->
            <<Rule(hull_maintenance_keys, "Hull", "Hull Maintenance & Repair"),
              Rule(hull_rigging_keys, "Hull", "Rigging & Deck Equipment"),
              Rule(safety_fire_keys, "Safety", "Fire & Emergency Equipment"),
              Rule(safety_rescue_keys, "Safety", "Rescue & Survival Equipment")>>
      [] cat = "Common Maintenance" ->
            <<Rule(tools_keys, "Common Maintenance", "Tools & Equipment"),
              Rule(test_measure_keys, "Common Maintenance", "Test & Measurement Tools"),
              Rule(cleaning_keys, "Common Maintenance", "Cleaning Equipment & Supplies"),
              Rule(ppe_keys, "Common Maintenance", "PPE & Uniforms"),
              Rule(docs_keys, "Common Maintenance", "Documentation & Manuals")>>
      [] cat = "Recreational" ->
            <<Rule(cleaning_keys, "Common Maintenance", "Cleaning Equipment & Supplies"),
              Rule(rec_tools_list, "Common Maintenance", "Tools & Equipment"),
              Rule(rec_medical_list, "Safety", "First Aid & Emergency Equipment"),
              Rule(rec_galley_list, "Recreational", "Galley Consumables"),
              Rule(rec_office_list, "Recreational", "Cabin & Office Supplies"),
              Rule(recreational_water_keys, "Recreational", "Recreational Equipment"),
              Rule(recreational_fitness_keys, "Recreational", "Sports & Fitness Equipment"),
              Rule(rec_components_keys, "Recreational", "Recreational Components"),
              Rule(rec_consumables_keys, "Recreational", "Recreational Consumables")>>
      [] cat = "Sailing" ->
            <<Rule(sailing_canvas_list, "Sailing", "Sails & Canvas"),
              Rule(sailing_running_list, "Sailing", "Running Rigging"),
              Rule(sailing_standing_list, "Sailing", "Standing Rigging"),
              Rule(sailing_deck_list, "Sailing", "Winches & Deck Gear"),
              Rule(sailing_consumable_list, "Sailing", "Sailing Consumables"),
              Rule(sailing_repair_list, "Sailing", "Sail Maintenance & Repair")>>
      [] cat = "Safety" ->
            <<Rule(safety_fire_keys, "Safety", "Fire & Emergency Equipment"),
              Rule(safety_rescue_keys, "Safety", "Rescue & Survival Equipment")>>

\* The fallback sub-category of each block.
Fallback(cat) ==
    CASE cat = "Electrical" -> "Electrical Components & Devices"
      [] cat = "Hull" -> "Hull Maintenance & Repair"
      [] cat = "Common Maintenance" -> "Maintenance Consumables"
      [] cat = "Recreational" -> "Recreational Cleaning & Storage"
      [] cat = "Sailing" -> "Sailing Consumables"
      [] cat = "Safety" -> "First Aid & Emergency Equipment"

CatchAll == "Other Spare Parts"

\* The prior category and sub-category of a row as text, whitespace-trimmed.
PriorCat(r) == strip(str(get(r, "New Category")))

PriorSub(r) == strip(str(get(r, "New Sub-Category")))

\* The row's prior pair is one of the six trigger pairs.
TriggerPair(r) == PriorCat(r) \in TriggerCategories /\ PriorSub(r) = CatchAll

\* The rules of the row's block whose keyword set matches the description
\* that assign_v5b searches.
Matching(r) ==
    {i \in 1..Len(BlockRules(PriorCat(r))) :
        any_in(BlockRules(PriorCat(r))[i].keys, desc_of(r))}

Min(S) == CHOOSE i \in S : \A j \in S : i <= j

Pair(t) == <<t[1], t[2]>>

\* assign_v5b has just returned the result of the row.
Assigned == pc = "assigned"

---------------------------------------------------------------------------
(* Claims about assign_v5b, checked under SpecAssign                       *)

\* The cell of column c is the text t, as it stands.
CellIs(r, c, t) == get(r, c) = PyStr(t)

\* C1 (as claimed): a row whose prior pair is not a trigger pair comes back
\* with its category, sub-category and sub-sub-category cells unchanged.
C1_IdentityPassThrough ==
    (Assigned /\ ~TriggerPair(row)) =>
        /\ CellIs(row, "New Category", result[1])
        /\ CellIs(row, "New Sub-Category", result[2])
        /\ CellIs(row, "New Sub-Sub-Category", result[3])

\* C2: a row that matches a trigger pair and whose description holds no keyword
\* of its block gets the block's own category with the block's fallback
\* sub-category, which is never the catch-all.
C2_FallbackWhenNoKeyword ==
    (Assigned /\ TriggerPair(row) /\ Matching(row) = {}) =>
        /\ Pair(result) = <<PriorCat(row), Fallback(PriorCat(row))>>
        /\ result[2] # CatchAll

\* C2 witness: a Safety row whose description holds no fire or rescue keyword gets the Safety fallback.
C2_Witness ==
    /\ Assigned
    /\ TriggerPair(row)
    /\ Matching(row) = {}
    /\ PriorCat(row) = "Safety"
    /\ result[2] = "First Aid & Emergency Equipment"

\* C3: when the description holds keywords of two or more keyword sets of the
\* row's block, the result is the target of the earliest of them in the
\* block's declared order (and of no other block).
C3_FirstMatchWins ==
    (Assigned /\ TriggerPair(row) /\ Cardinality(Matching(row)) >= 2) =>
        Pair(result) = BlockRules(PriorCat(row))[Min(Matching(row))].target

\* C3 witness: a Hull row whose description holds rigging and fire-safety keywords, and no maintenance keyword, gets the rigging target.
C3_Witness ==
    /\ Assigned
    /\ TriggerPair(row)
    /\ PriorCat(row) = "Hull"
    /\ Matching(row) = {2, 3}
    /\ Pair(result) = <<"Hull", "Rigging & Deck Equipment">>

\* C4 (as claimed): the third component of the result is the row's
\* New Sub-Sub-Category cell, unmodified, whatever the row.
C4_SubSubUnchanged ==
    Assigned => CellIs(row, "New Sub-Sub-Category", result[3])

\* A descriptive field that is absent, null or empty.
Blank(r, c) == c \notin DOMAIN r \/ r[c] \in {NaN, PyStr("")}

\* The record of the Hull end-to-end example: only its Description has text.
HullFireRecord(r) ==
    /\ CellIs(r, "New Category", "Hull")
    /\ CellIs(r, "New Sub-Category", CatchAll)
    /\ CellIs(r, "Description", "fire extinguisher bracket")
    /\ Blank(r, "Item")
    /\ Blank(r, "Subcategory")

\* C5 (as claimed): the Hull record described "fire extinguisher bracket"
\* gets the Hull fallback.
C5_HullFireGetsHullFallback ==
    (Assigned /\ HullFireRecord(row)) =>
        Pair(result) = <<"Hull", "Hull Maintenance & Repair">>

\* C5 (amended): the Hull record described "fire extinguisher bracket" matches
\* the fire-safety keywords and goes to Safety / Fire & Emergency Equipment,
\* with its sub-sub-category as trimmed text.
C5_HullFireGetsFireSafety ==
    (Assigned /\ HullFireRecord(row)) =>
        result = <<"Safety", "Fire & Emergency Equipment",
                   strip(str(get(row, "New Sub-Sub-Category")))>>

\* C5 witness: the Hull record of the example, sub-sub-category "Misc", classified to Safety / Fire & Emergency Equipment.
C5_Witness ==
    /\ Assigned
    /\ HullFireRecord(row)
    /\ CellIs(row, "New Sub-Sub-Category", "Misc")
    /\ result = <<"Safety", "Fire & Emergency Equipment", "Misc">>

DescriptiveFields == <<"Item", "Description", "Subcategory">>

\* Rule i of the row's block has a keyword that one of the row's descriptive
\* fields contains in some letter case, possibly inside a longer word.
MatchesAnyCase(r, i) ==
    \E f \in {"Item", "Description", "Subcategory"} :
        LET text == lower(str(get(r, f)))
        IN  \E k \in BlockRules(PriorCat(r))[i].keys : in_str(k, text)

\* The row with the text of its descriptive fields in lower case.
LowerCased(r) ==
    [c \in DOMAIN r |->
        IF c \in {"Item", "Description", "Subcategory"} /\ r[c].kind = "str"
        THEN PyStr(lower(r[c].s))
        ELSE r[c]]

\* C6: a keyword of a set of the row's block that a descriptive field contains
\* in any letter case, or inside a longer word, makes that set match (the
\* result is the target of that set or of an earlier one), and the row is
\* classified exactly as the same row written in lower case.
C6_CaseInsensitiveSubstring ==
    Assigned =>
        /\ TriggerPair(row) =>
              \A i \in 1..Len(BlockRules(PriorCat(row))) :
                  MatchesAnyCase(row, i) =>
                      \E j \in 1..i :
                          Pair(result) = BlockRules(PriorCat(row))[j].target
        /\ result = assign_v5b(LowerCased(row))

\* C6 witness: a Common Maintenance row whose only keyword is "polish" inside the Item "POLISHING" gets the cleaning target.
C6_Witness ==
    /\ Assigned
    /\ PriorCat(row) = "Common Maintenance"
    /\ PriorSub(row) = CatchAll
    /\ CellIs(row, "Item", "POLISHING")
    /\ CellIs(row, "Description", "widget")
    /\ "Subcategory" \notin DOMAIN row
    /\ Pair(result) = <<"Common Maintenance", "Cleaning Equipment & Supplies">>

\* The description with absent and null fields skipped: the lower-cased text
\* of the fields the row has and that are not null, joined by single spaces.
SkippedDesc(r) ==
    LET kept == SelectSeq(DescriptiveFields,
                          LAMBDA c : c \in DOMAIN r /\ r[c].kind # "nan")
    IN  join(" ", [i \in 1..Len(kept) |-> lower(str(r[kept[i]]))])

\* C9 (as claimed): null and absent descriptive fields are skipped when the
\* description is built, and a row of a trigger pair whose three descriptive
\* fields are all absent, null or empty matches no keyword set and gets its
\* block's fallback.
C9_BlankFieldsSkipped ==
    Assigned =>
        /\ desc_of(row) = SkippedDesc(row)
        /\ (TriggerPair(row) /\ \A c \in {"Item", "Description", "Subcategory"} : Blank(row, c))
              => /\ Matching(row) = {}
                 /\ Pair(result) = <<PriorCat(row), Fallback(PriorCat(row))>>

\* The row was resolved to its block's fallback: no keyword set matched.
ResolvedToFallback(r) == TriggerPair(r) /\ Matching(r) = {}

\* C10 (as claimed): among the rows that entered a rule block, the second pass
\* returns the first pass's pair only for those resolved to the block fallback.
C10_FixedPointOnlyForFallback ==
    (pc = "reassigned" /\ TriggerPair(row) /\ Pair(second) = Pair(result))
        => ResolvedToFallback(row)

\* C10 (amended): the second pass over the derived pair returns that pair, for
\* every row.
C10_SecondPassIsFixedPoint ==
    pc = "reassigned" => Pair(second) = Pair(result)

\* C10 witness: a keyword-matched row reassigned away from its category, whose second pass returns the same pair.
C10_Witness ==
    /\ pc = "reassigned"
    /\ TriggerPair(row)
    /\ Matching(row) # {}
    /\ result[1] # PriorCat(row)
    /\ Pair(second) = Pair(result)

---------------------------------------------------------------------------
(* Claims about the summaries, checked under Spec                          *)

\* A prior cell as compared for Summary1: a null counts as the empty string.
NullAsEmpty(cell) == IF cell = NaN THEN PyStr("") ELSE cell

\* Row i of the table has a derived category or sub-category that differs from
\* the prior one.
Differs(t, i) ==
    \/ t.rows[i]["v5b_Category"] # NullAsEmpty(t.rows[i]["New Category"])
    \/ t.rows[i]["v5b_SubCategory"] # NullAsEmpty(t.rows[i]["New Sub-Category"])

\* C7 (as claimed): Changed Rows is the number of rows whose derived category
\* or sub-category differs from the prior one (a null prior as the empty
\* string), and no row of an untriggered pair is among them.
C7_ChangedRowsCount ==
    pc = "done" =>
        /\ summary1["Changed Rows"] =
              Cardinality({i \in 1..Len(df_v5b.rows) : Differs(df_v5b, i)})
        /\ \A i \in 1..Len(df_v5b.rows) :
              ~TriggerPair(df.rows[i]) => ~Differs(df_v5b, i)

RECURSIVE SumCounts(_)
SumCounts(S) ==
    IF S = {} THEN 0
    ELSE LET g == CHOOSE g \in S : TRUE IN g.Count + SumCounts(S \ {g})

\* The rows of the table whose prior sub-category is the catch-all.
CatchAllRows(t) == {i \in 1..Len(t.rows) : CellIs(t.rows[i], "New Sub-Category", CatchAll)}

PriorDerived(t, i) == <<t.rows[i]["New Category"], t.rows[i]["v5b_Category"]>>

\* C8 (as claimed): Summary2 has exactly one row per (prior category, derived
\* category) pair among the catch-all rows, each with the number of rows of
\* its group, none zero; the counts sum to the number of catch-all rows, and
\* every row that entered a rule block is among them.
C8_Summary2Groups ==
    pc = "done" =>
        /\ {<<g.prior, g.derived>> : g \in summary2}
              = {PriorDerived(df_v5b, i) : i \in CatchAllRows(df_v5b)}
        /\ Cardinality(summary2)
              = Cardinality({PriorDerived(df_v5b, i) : i \in CatchAllRows(df_v5b)})
        /\ \A g \in summary2 :
              /\ g.Count = Cardinality({i \in CatchAllRows(df_v5b) :
                                           PriorDerived(df_v5b, i) = <<g.prior, g.derived>>})
              /\ g.Count > 0
        /\ SumCounts(summary2) = Cardinality(CatchAllRows(df_v5b))
        /\ \A i \in 1..Len(df_v5b.rows) :
              TriggerPair(df.rows[i]) => i \in CatchAllRows(df_v5b)

=============================================================================
